---- MODULE Spec2Model ----
(***************************************************************************)
(* Model of the SCC validating webhook, pkg/webhooks/scc/scc.go.           *)
(*                                                                         *)
(* A request carries an operation, a uid, the requester's username, the    *)
(* kind of the target and two raw payloads (OldObject.Raw, Object.Raw).    *)
(* A raw payload is a sequence of tokens: the empty sequence is a          *)
(* zero-length payload, a JSON object is an opening brace, field tokens    *)
(* and a closing brace.  A pointer is a sequence of length at most one:    *)
(* << >> is nil and <<v>> points to v.                                      *)
(*                                                                         *)
(* Spec     : one handler slot; the host calls Validate or Authorized with *)
(*            any request, each call being one atomic action.              *)
(* SpecConc : NumHandlers slots; authorized runs in two steps (renderSCC,  *)
(*            then the switch) that interleave freely between the slots.   *)
(***************************************************************************)
EXTENDS Integers, Sequences, FiniteSets, TLC

VARIABLES defaultSCCs, anyuidPriority, pc, req, oldScc, newScc, err, ret, valid

vars == <<defaultSCCs, anyuidPriority, pc, req, oldScc, newScc, err, ret, valid>>

(* ---------------------------- bounds ---------------------------------- *)
MaxFields == 2
NumHandlers == 2

(* ------------------------- program constants --------------------------- *)
Int32Max == 2147483647
StatusOK == 200
StatusBadRequest == 400
StatusForbidden == 403
anyuidPriorityInit == 10
defaultSCCsInit ==
    << "anyuid", "hostaccess", "hostmount-anyuid", "hostnetwork",
       "node-exporter", "nonroot", "privileged", "restricted",
       "pipelines-scc" >>

Delete == "DELETE"
Create == "CREATE"
Update == "UPDATE"
Connect == "CONNECT"
Operations == {Create, Update, Delete, Connect}

NoErr == "nil"
ErrNoContent == "there is no content to decode"
ErrSyntax == "unexpected end of JSON input"
ErrUnmarshal == "cannot unmarshal number into Go struct field of type int32"

(* ------------------------- raw payloads -------------------------------- *)
(* A field token is a key with a string value s or a number literal n,     *)
(* the literal being its sequence of decimal digits.                       *)
LBrace == [k |-> "{", s |-> "", n |-> << >>]
RBrace == [k |-> "}", s |-> "", n |-> << >>]
NameTok(s) == [k |-> "metadata.name", s |-> s, n |-> << >>]
PrioTok(n) == [k |-> "priority", s |-> "", n |-> n]

FieldToks ==
    { NameTok("pipelines-scc"), NameTok("custom"),
      PrioTok(<<1, 0>>), PrioTok(<<1, 1>>),
      PrioTok(<<2, 1, 4, 7, 4, 8, 3, 6, 4, 8>>) }

FieldSeqs == UNION { [1..n -> FieldToks] : n \in 0..MaxFields }

JsonObject(fs) == <<LBrace>> \o fs \o <<RBrace>>

Raws == { << >>, <<LBrace>> } \cup { JsonObject(fs) : fs \in FieldSeqs }

UIDs == {"uid-1", "uid-2"}
Usernames == {"", "alice"}
Kinds == {"SecurityContextConstraint", "SecurityContextConstraints"}

Requests ==
    [ Operation : Operations, UID : UIDs, Username : Usernames, Kind : Kinds,
      OldObject : Raws, Object : Raws ]

ConcOldRaws == { JsonObject(<<NameTok("pipelines-scc")>>), <<LBrace>> }
ConcNewRaws == { JsonObject(<<PrioTok(<<1, 1>>)>>), << >> }

ConcRequests ==
    [ Operation : Operations, UID : {"uid-1"}, Username : {"alice"},
      Kind : {"SecurityContextConstraint"},
      OldObject : ConcOldRaws, Object : ConcNewRaws ]

(* ------------------------- decoding ------------------------------------ *)
ZeroSCC == [Name |-> "", Priority |-> << >>]

(* Parsing a number literal into an int32: << >> when it does not fit.     *)
RECURSIVE ParseInt32(_, _)
ParseInt32(digits, acc) ==
    IF digits = << >> THEN <<acc>>
    ELSE IF acc > (Int32Max - Head(digits)) \div 10 THEN << >>
    ELSE ParseInt32(Tail(digits), acc * 10 + Head(digits))

RECURSIVE Unmarshal(_, _)
Unmarshal(fields, scc) ==
    IF fields = << >> THEN [err |-> NoErr, scc |-> scc]
    ELSE LET f == Head(fields) IN
         IF f.k = "metadata.name"
         THEN Unmarshal(Tail(fields), [scc EXCEPT !.Name = f.s])
         ELSE IF f.k = "priority"
         THEN IF f.n = << >> \/ ParseInt32(f.n, 0) = << >>
              THEN [err |-> ErrUnmarshal, scc |-> scc]
              ELSE Unmarshal(Tail(fields),
                             [scc EXCEPT !.Priority = ParseInt32(f.n, 0)])
         ELSE [err |-> ErrSyntax, scc |-> scc]

DecodeRaw(raw, into) ==
    IF Len(raw) = 0 THEN [err |-> ErrNoContent, scc |-> into]
    ELSE IF Len(raw) < 2 \/ raw[1] # LBrace \/ raw[Len(raw)] # RBrace
    THEN [err |-> ErrSyntax, scc |-> into]
    ELSE Unmarshal(SubSeq(raw, 2, Len(raw) - 1), into)

(* renderSCC with the first error check dropped: the second decode         *)
(* overwrites err.                                                         *)
renderSCC_ErrOverwritten(request) ==
    LET old == IF Len(request.OldObject) > 0
               THEN DecodeRaw(request.OldObject, ZeroSCC)
               ELSE [err |-> NoErr, scc |-> ZeroSCC]
        new == IF Len(request.Object) > 0
               THEN DecodeRaw(request.Object, ZeroSCC)
               ELSE [err |-> old.err, scc |-> ZeroSCC]
    IN  IF new.err # NoErr
        THEN [oldScc |-> << >>, newScc |-> << >>, err |-> new.err]
        ELSE [oldScc |-> <<old.scc>>, newScc |-> <<new.scc>>, err |-> NoErr]

(* renderSCC with the length guards dropped: DecodeRaw is always called.   *)
renderSCC_NoLenGuard(request) ==
    LET old == DecodeRaw(request.OldObject, ZeroSCC)
    IN  IF old.err # NoErr
        THEN [oldScc |-> << >>, newScc |-> << >>, err |-> old.err]
        ELSE LET new == DecodeRaw(request.Object, ZeroSCC)
             IN  IF new.err # NoErr
                 THEN [oldScc |-> << >>, newScc |-> << >>, err |-> new.err]
                 ELSE [oldScc |-> <<old.scc>>, newScc |-> <<new.scc>>,
                       err |-> NoErr]

renderSCC(request) ==
    LET old == IF Len(request.OldObject) > 0
               THEN DecodeRaw(request.OldObject, ZeroSCC)
               ELSE [err |-> NoErr, scc |-> ZeroSCC]
    IN  IF old.err # NoErr
        THEN [oldScc |-> << >>, newScc |-> << >>, err |-> old.err]
        ELSE LET new == IF Len(request.Object) > 0
                        THEN DecodeRaw(request.Object, ZeroSCC)
                        ELSE [err |-> NoErr, scc |-> ZeroSCC]
             IN  IF new.err # NoErr
                 THEN [oldScc |-> << >>, newScc |-> << >>, err |-> new.err]
                 ELSE [oldScc |-> <<old.scc>>, newScc |-> <<new.scc>>,
                       err |-> NoErr]

(* ------------------------- policy -------------------------------------- *)
(* isDefaultSCC with the loop ending one element early.                    *)
isDefaultSCC_OffByOne(scc) ==
    \E i \in 1..(Len(defaultSCCs) - 1) : scc.Name = defaultSCCs[i]

isDefaultSCC(scc) ==
    \E i \in 1..Len(defaultSCCs) : scc.Name = defaultSCCs[i]

(* isSCCwithHigherPriority with >= in place of >.                          *)
isSCCwithHigherPriority_Geq(scc) ==
    /\ scc.Priority # << >>
    /\ scc.Priority[1] >= anyuidPriority

isSCCwithHigherPriority(scc) ==
    /\ scc.Priority # << >>
    /\ scc.Priority[1] > anyuidPriority

Plain(text) == <<text>>
Sprintf(format, n) == <<format, n>>

Allowed(reason) == [Allowed |-> TRUE, Code |-> StatusOK, Reason |-> Plain(reason), UID |-> ""]
Denied(reason) == [Allowed |-> FALSE, Code |-> StatusForbidden, Reason |-> reason, UID |-> ""]
Errored(code, e) == [Allowed |-> FALSE, Code |-> code, Reason |-> Plain(e), UID |-> ""]

MsgDelete == Plain("Deleting default SCCs is not allowed")
MsgModify == Plain("Modifying default SCCs is not allowed")
MsgCreate == Sprintf("Creating SCC with priority higher than %d is not allowed", anyuidPriority)
MsgUpdate == Sprintf("Updating SCC with priority higher than %d is not allowed", anyuidPriority)

WithUID(response, request) == [response EXCEPT !.UID = request.UID]

(* The switch with the two checks of the Update case in the other order.   *)
authorizedSwitch_PriorityFirst(request, old, new) ==
    IF request.Operation = Delete /\ isDefaultSCC(old)
    THEN WithUID(Denied(MsgDelete), request)
    ELSE IF request.Operation = Create /\ isSCCwithHigherPriority(new)
    THEN WithUID(Denied(MsgCreate), request)
    ELSE IF request.Operation = Update /\ isSCCwithHigherPriority(new)
    THEN WithUID(Denied(MsgUpdate), request)
    ELSE IF request.Operation = Update /\ isDefaultSCC(old)
    THEN WithUID(Denied(MsgModify), request)
    ELSE WithUID(Allowed("Request is allowed"), request)

(* The switch with the Update case written as the default case.            *)
authorizedSwitch_DefaultCase(request, old, new) ==
    IF request.Operation = Delete /\ isDefaultSCC(old)
    THEN WithUID(Denied(MsgDelete), request)
    ELSE IF request.Operation = Create /\ isSCCwithHigherPriority(new)
    THEN WithUID(Denied(MsgCreate), request)
    ELSE IF request.Operation \notin {Delete, Create} /\ isDefaultSCC(old)
    THEN WithUID(Denied(MsgModify), request)
    ELSE IF request.Operation \notin {Delete, Create}
            /\ isSCCwithHigherPriority(new)
    THEN WithUID(Denied(MsgUpdate), request)
    ELSE WithUID(Allowed("Request is allowed"), request)

(* The switch of authorized, lines 81-109, on the decoded objects. *)
authorizedSwitch(request, old, new) ==
    IF request.Operation = Delete /\ isDefaultSCC(old)
    THEN WithUID(Denied(MsgDelete), request)
    ELSE IF request.Operation = Create /\ isSCCwithHigherPriority(new)
    THEN WithUID(Denied(MsgCreate), request)
    ELSE IF request.Operation = Update /\ isDefaultSCC(old)
    THEN WithUID(Denied(MsgModify), request)
    ELSE IF request.Operation = Update /\ isSCCwithHigherPriority(new)
    THEN WithUID(Denied(MsgUpdate), request)
    ELSE WithUID(Allowed("Request is allowed"), request)

(* authorized as a whole: the locals it computes and the response. *)
authorized(request) ==
    LET r == renderSCC(request) IN
    [ oldScc |-> r.oldScc, newScc |-> r.newScc, err |-> r.err,
      ret |-> IF r.err # NoErr
              THEN Errored(StatusBadRequest, r.err)
              ELSE authorizedSwitch(request, r.oldScc[1], r.newScc[1]) ]

(* Validate comparing the kind with the plural resource name.              *)
ValidateResult_Plural(request) ==
    LET valid0 == TRUE
        valid1 == valid0 /\ (request.Username # "")
        valid2 == valid1 /\ (request.Kind = "SecurityContextConstraints")
    IN  valid2

ValidateResult(request) ==
    LET valid0 == TRUE
        valid1 == valid0 /\ (request.Username # "")
        valid2 == valid1 /\ (request.Kind = "SecurityContextConstraint")
    IN  valid2

(* ------------------------- state machine ------------------------------- *)
Handlers == DOMAIN pc

InitSlots(H) ==
    /\ defaultSCCs = defaultSCCsInit
    /\ anyuidPriority = anyuidPriorityInit
    /\ pc = [h \in H |-> "idle"]
    /\ req = [h \in H |-> << >>]
    /\ oldScc = [h \in H |-> << >>]
    /\ newScc = [h \in H |-> << >>]
    /\ err = [h \in H |-> NoErr]
    /\ ret = [h \in H |-> << >>]
    /\ valid = [h \in H |-> << >>]

Init == InitSlots({1})
InitConc == InitSlots(1..NumHandlers)

(* The host calls Validate(request). *)
Validate(h) ==
    /\ pc[h] = "idle"
    /\ \E request \in Requests :
         /\ req' = [req EXCEPT ![h] = <<request>>]
         /\ valid' = [valid EXCEPT ![h] = <<ValidateResult(request)>>]
    /\ pc' = [pc EXCEPT ![h] = "validated"]
    /\ UNCHANGED <<defaultSCCs, anyuidPriority, oldScc, newScc, err, ret>>

(* The host calls Authorized(request); the call runs to its return. *)
Authorized(h) ==
    /\ pc[h] = "idle"
    /\ \E request \in Requests :
         LET a == authorized(request) IN
         /\ req' = [req EXCEPT ![h] = <<request>>]
         /\ oldScc' = [oldScc EXCEPT ![h] = a.oldScc]
         /\ newScc' = [newScc EXCEPT ![h] = a.newScc]
         /\ err' = [err EXCEPT ![h] = a.err]
         /\ ret' = [ret EXCEPT ![h] = <<a.ret>>]
    /\ pc' = [pc EXCEPT ![h] = "returned"]
    /\ UNCHANGED <<defaultSCCs, anyuidPriority, valid>>

(* The call's frame is discarded: nothing outlives a decision. *)
Return(h) ==
    /\ pc[h] \in {"validated", "returned"}
    /\ pc' = [pc EXCEPT ![h] = "idle"]
    /\ req' = [req EXCEPT ![h] = << >>]
    /\ oldScc' = [oldScc EXCEPT ![h] = << >>]
    /\ newScc' = [newScc EXCEPT ![h] = << >>]
    /\ err' = [err EXCEPT ![h] = NoErr]
    /\ ret' = [ret EXCEPT ![h] = << >>]
    /\ valid' = [valid EXCEPT ![h] = << >>]
    /\ UNCHANGED <<defaultSCCs, anyuidPriority>>

(* Authorized entered on a slot; authorized then runs step by step. *)
AuthorizedEnter(h) ==
    /\ pc[h] = "idle"
    /\ \E request \in ConcRequests : req' = [req EXCEPT ![h] = <<request>>]
    /\ pc' = [pc EXCEPT ![h] = "render"]
    /\ UNCHANGED <<defaultSCCs, anyuidPriority, oldScc, newScc, err, ret, valid>>

(* RenderStep with the decoded objects kept in package-level variables     *)
(* that every in-flight call shares.                                       *)
RenderStep_SharedLocals(h) ==
    /\ pc[h] = "render"
    /\ LET r == renderSCC(req[h][1]) IN
       /\ err' = [err EXCEPT ![h] = r.err]
       /\ IF r.err # NoErr
          THEN /\ ret' = [ret EXCEPT ![h] = <<Errored(StatusBadRequest, r.err)>>]
               /\ pc' = [pc EXCEPT ![h] = "returned"]
               /\ UNCHANGED <<oldScc, newScc>>
          ELSE /\ ret' = ret
               /\ pc' = [pc EXCEPT ![h] = "switch"]
               /\ oldScc' = [g \in Handlers |-> r.oldScc]
               /\ newScc' = [g \in Handlers |-> r.newScc]
    /\ UNCHANGED <<defaultSCCs, anyuidPriority, req, valid>>

(* Lines 75-79: renderSCC and the early return on its error. *)
RenderStep(h) ==
    /\ pc[h] = "render"
    /\ LET r == renderSCC(req[h][1]) IN
       /\ oldScc' = [oldScc EXCEPT ![h] = r.oldScc]
       /\ newScc' = [newScc EXCEPT ![h] = r.newScc]
       /\ err' = [err EXCEPT ![h] = r.err]
       /\ IF r.err # NoErr
          THEN /\ ret' = [ret EXCEPT ![h] = <<Errored(StatusBadRequest, r.err)>>]
               /\ pc' = [pc EXCEPT ![h] = "returned"]
          ELSE /\ ret' = ret
               /\ pc' = [pc EXCEPT ![h] = "switch"]
    /\ UNCHANGED <<defaultSCCs, anyuidPriority, req, valid>>

(* Lines 81-109: the switch on the operation, reading the package state. *)
SwitchStep(h) ==
    /\ pc[h] = "switch"
    /\ ret' = [ret EXCEPT ![h] =
                 <<authorizedSwitch(req[h][1], oldScc[h][1], newScc[h][1])>>]
    /\ pc' = [pc EXCEPT ![h] = "returned"]
    /\ UNCHANGED <<defaultSCCs, anyuidPriority, req, oldScc, newScc, err, valid>>

Next ==
    \/ \E h \in Handlers : Validate(h)
    \/ \E h \in Handlers : Authorized(h)
    \/ \E h \in Handlers : Return(h)

NextConc ==
    \/ \E h \in Handlers : AuthorizedEnter(h)
    \/ \E h \in Handlers : RenderStep(h)
    \/ \E h \in Handlers : SwitchStep(h)
    \/ \E h \in Handlers : Return(h)

Spec == Init /\ [][Next]_vars
SpecConc == InitConc /\ [][NextConc]_vars

(* ------------------------- properties ---------------------------------- *)
TypeOK ==
    /\ pc \in [Handlers -> {"idle", "validated", "render", "switch", "returned"}]
    /\ \A h \in Handlers : Len(req[h]) <= 1 /\ Len(ret[h]) <= 1

(* The nine protected names and the ceiling, as the specification states   *)
(* them.                                                                   *)
NineDefaultNames ==
    { "anyuid", "hostaccess", "hostmount-anyuid", "hostnetwork",
      "node-exporter", "nonroot", "privileged", "restricted",
      "pipelines-scc" }
Ceiling == 10

ReasonDelete == <<"Deleting default SCCs is not allowed">>
ReasonModify == <<"Modifying default SCCs is not allowed">>
ReasonCreate == <<"Creating SCC with priority higher than %d is not allowed", Ceiling>>
ReasonUpdate == <<"Updating SCC with priority higher than %d is not allowed", Ceiling>>
PolicyReasons == {ReasonDelete, ReasonModify, ReasonCreate, ReasonUpdate}

Returned(h) == pc[h] = "returned"
Decoded(h) == Returned(h) /\ err[h] = NoErr
OverCeiling(scc) == scc.Priority # << >> /\ scc.Priority[1] > Ceiling
DeniedWith(resp, reason) == ~resp.Allowed /\ resp.Reason = reason
Unparsable(raw) == Len(raw) > 0 /\ DecodeRaw(raw, ZeroSCC).err # NoErr

(* C1: every response returned by Authorized carries the uid of its        *)
(* request, whichever branch produced it, the decode-error branch          *)
(* included.                                                               *)
C1_UidEchoed ==
    \A h \in Handlers : Returned(h) => ret[h][1].UID = req[h][1].UID

(* C2: for an Update whose payloads decode, the response is the denial     *)
(* "Modifying default SCCs is not allowed" iff the prior name is a default *)
(* name, whatever the proposed priority; when the prior name is not a      *)
(* default name it is the denial "Updating SCC with priority higher than   *)
(* 10 is not allowed" iff the proposed priority is present and above 10;   *)
(* in every other case it is allowed.                                      *)
C2_UpdateOrder ==
    \A h \in Handlers :
        (Decoded(h) /\ req[h][1].Operation = Update) =>
            LET resp == ret[h][1]
                inDef == oldScc[h][1].Name \in NineDefaultNames
                over == OverCeiling(newScc[h][1])
            IN  /\ DeniedWith(resp, ReasonModify) <=> inDef
                /\ ~inDef => (DeniedWith(resp, ReasonUpdate) <=> over)
                /\ (~inDef /\ ~over) => resp.Allowed

C2_Witness ==
    \E h \in Handlers :
        /\ Decoded(h) /\ req[h][1].Operation = Update
        /\ oldScc[h][1].Name = "pipelines-scc"
        /\ newScc[h][1].Priority = <<11>>
        /\ DeniedWith(ret[h][1], ReasonModify)

(* C3: for a Delete whose payloads decode, the response is the denial      *)
(* "Deleting default SCCs is not allowed" iff the prior name is one of the *)
(* nine default names, and allowed for every other prior name, whatever    *)
(* the priorities and the proposed name are.                               *)
C3_DeleteDefault ==
    \A h \in Handlers :
        (Decoded(h) /\ req[h][1].Operation = Delete) =>
            LET resp == ret[h][1]
                inDef == oldScc[h][1].Name \in NineDefaultNames
            IN  /\ DeniedWith(resp, ReasonDelete) <=> inDef
                /\ ~inDef => resp.Allowed

C3_Witness ==
    \E h \in Handlers :
        /\ Decoded(h) /\ req[h][1].Operation = Delete
        /\ oldScc[h][1] = [Name |-> "pipelines-scc", Priority |-> <<11>>]
        /\ newScc[h][1].Name = "custom"
        /\ DeniedWith(ret[h][1], ReasonDelete)

(* C4: for a Create whose payloads decode, the response is the denial      *)
(* "Creating SCC with priority higher than 10 is not allowed" iff the      *)
(* proposed priority is present and strictly above 10, and allowed         *)
(* otherwise; the proposed name and the prior object play no part.         *)
C4_CreateCeiling ==
    \A h \in Handlers :
        (Decoded(h) /\ req[h][1].Operation = Create) =>
            LET resp == ret[h][1]
                over == OverCeiling(newScc[h][1])
            IN  /\ DeniedWith(resp, ReasonCreate) <=> over
                /\ ~over => resp.Allowed

C4_Witness ==
    \E h \in Handlers :
        /\ Decoded(h) /\ req[h][1].Operation = Create
        /\ newScc[h][1] = [Name |-> "pipelines-scc", Priority |-> <<Ceiling>>]
        /\ oldScc[h][1].Name = "pipelines-scc"
        /\ ret[h][1].Allowed

(* C5: when a non-empty prior or proposed payload cannot be parsed, the    *)
(* call ends with the error outcome for every operation and whatever the   *)
(* other payload holds: no decoded object is returned, the response is not *)
(* allowed, carries the bad-request code rather than the code of a policy  *)
(* denial, and its reason is none of the policy reasons.                   *)
C5_DecodeErrorShortCircuits ==
    \A h \in Handlers :
        (Returned(h) /\ (Unparsable(req[h][1].OldObject)
                         \/ Unparsable(req[h][1].Object))) =>
            /\ err[h] # NoErr
            /\ oldScc[h] = << >> /\ newScc[h] = << >>
            /\ ~ret[h][1].Allowed
            /\ ret[h][1].Code = StatusBadRequest
            /\ ret[h][1].Code # StatusForbidden
            /\ ret[h][1].Reason \notin PolicyReasons

C5_Witness ==
    \E h \in Handlers :
        /\ Returned(h) /\ req[h][1].Operation = Delete
        /\ req[h][1].OldObject = JsonObject(<<NameTok("pipelines-scc")>>)
        /\ Unparsable(req[h][1].Object)
        /\ ret[h][1].Code = StatusBadRequest

(* C6: a zero-length payload never raises a decode error and decodes to    *)
(* the zero-valued record; a Delete or Update with an empty prior payload  *)
(* is never denied by the default-name rule and a Create or Update with an *)
(* empty proposed payload is never denied by the priority rule.            *)
C6_EmptyPayloadIsZero ==
    \A h \in Handlers :
        Returned(h) =>
            LET r == req[h][1]
                resp == ret[h][1]
            IN  /\ (Len(r.OldObject) = 0 /\ ~Unparsable(r.Object)) =>
                       (err[h] = NoErr /\ oldScc[h] = <<ZeroSCC>>)
                /\ (Len(r.Object) = 0 /\ ~Unparsable(r.OldObject)) =>
                       (err[h] = NoErr /\ newScc[h] = <<ZeroSCC>>)
                /\ Len(r.OldObject) = 0 =>
                       resp.Reason \notin {ReasonDelete, ReasonModify}
                /\ Len(r.Object) = 0 =>
                       resp.Reason \notin {ReasonCreate, ReasonUpdate}
                /\ (Len(r.OldObject) = 0 /\ Len(r.Object) = 0) => resp.Allowed

C6_Witness ==
    \E h \in Handlers :
        /\ Returned(h) /\ req[h][1].Operation = Update
        /\ req[h][1].OldObject = << >> /\ req[h][1].Object = << >>
        /\ oldScc[h] = <<ZeroSCC>> /\ newScc[h] = <<ZeroSCC>>
        /\ ret[h][1].Allowed

(* C7: a request whose operation is none of Create, Update, Delete and     *)
(* whose payloads decode is always allowed, also when the prior name is a  *)
(* default name and the proposed priority is above the ceiling.            *)
C7_OtherOperationAllowed ==
    \A h \in Handlers :
        (Decoded(h) /\ req[h][1].Operation \notin {Create, Update, Delete}) =>
            /\ ret[h][1].Allowed
            /\ ret[h][1].Reason = <<"Request is allowed">>

C7_Witness ==
    \E h \in Handlers :
        /\ Decoded(h) /\ req[h][1].Operation = Connect
        /\ oldScc[h][1].Name \in NineDefaultNames
        /\ OverCeiling(newScc[h][1])
        /\ ret[h][1].Allowed

(* C8: Validate returns true iff the username is non-empty and the kind is *)
(* exactly "SecurityContextConstraint"; no other field of the request      *)
(* matters.                                                                *)
C8_ValidateIff ==
    \A h \in Handlers :
        pc[h] = "validated" =>
            (valid[h] = <<TRUE>>
                <=> (req[h][1].Username # ""
                     /\ req[h][1].Kind = "SecurityContextConstraint"))
            /\ valid[h] \in {<<TRUE>>, <<FALSE>>}

C8_Witness ==
    \E h \in Handlers :
        /\ pc[h] = "validated"
        /\ req[h][1].Username = "alice"
        /\ req[h][1].Kind = "SecurityContextConstraints"
        /\ valid[h] = <<FALSE>>

(* The decision one request gets when it is evaluated alone, from the      *)
(* initial package state.                                                  *)
SoloOutcome(request) ==
    LET old == IF Len(request.OldObject) > 0
               THEN DecodeRaw(request.OldObject, ZeroSCC)
               ELSE [err |-> NoErr, scc |-> ZeroSCC]
        new == IF Len(request.Object) > 0
               THEN DecodeRaw(request.Object, ZeroSCC)
               ELSE [err |-> NoErr, scc |-> ZeroSCC]
        inDef == old.scc.Name \in NineDefaultNames
        over == OverCeiling(new.scc)
        op == request.Operation
    IN  IF old.err # NoErr THEN [Allowed |-> FALSE, Reason |-> <<old.err>>]
        ELSE IF new.err # NoErr THEN [Allowed |-> FALSE, Reason |-> <<new.err>>]
        ELSE IF op = Delete /\ inDef THEN [Allowed |-> FALSE, Reason |-> ReasonDelete]
        ELSE IF op = Create /\ over THEN [Allowed |-> FALSE, Reason |-> ReasonCreate]
        ELSE IF op = Update /\ inDef THEN [Allowed |-> FALSE, Reason |-> ReasonModify]
        ELSE IF op = Update /\ over THEN [Allowed |-> FALSE, Reason |-> ReasonUpdate]
        ELSE [Allowed |-> TRUE, Reason |-> <<"Request is allowed">>]

(* C9: in every interleaving of the concurrent evaluations no step writes  *)
(* the shared state, defaultSCCs and anyuidPriority keep their initial     *)
(* values, and every returned response is the one its request gets when    *)
(* it is evaluated alone.                                                  *)
C9_NoInterference ==
    /\ defaultSCCs = defaultSCCsInit
    /\ anyuidPriority = anyuidPriorityInit
    /\ \A h \in Handlers :
           Returned(h) =>
               /\ ret[h][1].Allowed = SoloOutcome(req[h][1]).Allowed
               /\ ret[h][1].Reason = SoloOutcome(req[h][1]).Reason

C9_Witness ==
    \E g, h \in Handlers :
        /\ g # h
        /\ Returned(g) /\ Returned(h)
        /\ req[g][1].Operation = Create /\ ret[g][1].Allowed
        /\ req[h][1].Operation = Create /\ ~ret[h][1].Allowed
        /\ err[g] = NoErr /\ err[h] = NoErr
====
